---- MODULE Spec2Model ----
(***************************************************************************)
(* Model of the acquisition-diff-notify pipeline of babu-absen:            *)
(*   - Worker (worker-api/src/application/Worker.ts): the diff of two      *)
(*     Subject snapshots and the per-Subject tasks of handle();            *)
(*   - Scraper: the browser-driven session scrape().                       *)
(***************************************************************************)
EXTENDS Integers, Sequences, FiniteSets, TLC

VARIABLES
    \* ---- inputs and results of the diff functions
    oldSubject,      \* argument 1 of #getMeetingsDiff
    newSubject,      \* argument 2 of #getMeetingsDiff
    meetingsDiff,    \* result of #getMeetingsDiff (meaningful once dpc = "done")
    dpc,             \* "input" before the diff function is applied, then "done"
    inOldMeeting,    \* argument 1 of #getLecturesDiff
    inNewMeeting,    \* argument 2 of #getLecturesDiff
    outLecturesDiff, \* result of #getLecturesDiff (meaningful once dpc = "done")
    \* ---- Worker.handle()
    store,           \* env.HYSBYSU_STORAGE: key -> stored string, or NullString
    hpc,             \* position of handle()
    subjects,        \* the Subjects returned by collectSubjects in this run
    tpc,             \* position of each diffing task (index into subjects)
    oldSubjectString,\* each task's local oldSubjectString
    getOutcome,      \* what each task's storage get did
    diffResult,      \* each task's meetingsDiff, NotComputed when none was made
    notified,        \* payload each task passed to webhook.notify, or NotComputed
    putArg,          \* value each task passed to storage put, or NotComputed
    failures,        \* the steps of each task that threw
    calls,           \* per task, how often get / notify / put were invoked
    loggerErrors,    \* messages passed to logger.error
    webhookErrors,   \* messages passed to webhook.error
    settled,         \* the tasks in the order in which they settled
    acquisition,     \* the acquisition calls of handle() and how each ended
    \* ---- Scraper
    scrapeStep,      \* the step scrape() is in, or idle / returned / rejected
    scrapeOp,        \* which awaited operation of that step is in flight
    page,            \* this._page: "undefined", or the state of the page held
    browser,         \* the browser: "open" | "closed"
    runs,            \* number of scrape() calls made
    stepsEntered,    \* the steps this run has invoked, in order
    executed,        \* the operations this run has invoked: [step, op]
    failedStep,      \* the step whose failure ended this run, or "none"
    urls,            \* the hrefs read by savePageSnapshots in this run
    utasks,          \* the per-URL tasks: [run, url, pc, page]
    audit,           \* the audit-trail storage: set of [key, value]
    caller,          \* who invoked the step in progress: scrape() or a direct call
    raised           \* the error the current invocation ended with, or NoError

diffVars == <<oldSubject, newSubject, meetingsDiff, dpc, inOldMeeting,
              inNewMeeting, outLecturesDiff>>

workerVars == <<store, hpc, subjects, tpc, oldSubjectString, getOutcome,
                diffResult, notified, putArg, failures, calls, loggerErrors,
                webhookErrors, settled, acquisition>>

scraperVars == <<scrapeStep, scrapeOp, page, browser, runs, stepsEntered,
                 executed, failedStep, urls, utasks, audit, caller, raised>>

\* What Worker.handle() never touches.
nonWorkerVars == <<diffVars, scraperVars>>

vars == <<diffVars, workerVars, scraperVars>>

------------------------------------------------------------------------------
(* Values *)

\* JavaScript's undefined: what an out-of-range array read yields.
Undefined == [undefined |-> TRUE]

\* JavaScript's null, as JSON.parse gives it for the text "null".
Null == [null |-> TRUE]

\* A string | null: what the storage get answers and what put is given.
\* A string is the sequence of its tokens.
NullString == [present |-> FALSE, text |-> <<>>]
String(tokens) == [present |-> TRUE, text |-> tokens]

\* A value that is not there yet: a local before its assignment, the
\* argument of a call not made.
NotComputed == [computed |-> FALSE, val |-> <<>>]
Computed(v) == [computed |-> TRUE, val |-> v]

Min(a, b) == IF a < b THEN a ELSE b

\* Array.prototype.slice(start) / slice(0, end) on a 1-based sequence.
SliceFrom(s, start) == SubSeq(s, start + 1, Len(s))
SliceTo(s, end) == SubSeq(s, 1, Min(end, Len(s)))

\* Array read arr[i] (0-based i): undefined outside the array.
At(s, i) == IF i + 1 \in DOMAIN s THEN s[i + 1] ELSE Undefined

------------------------------------------------------------------------------
(* Entity model *)

LectureNames == {"Week 1", "Week 1 (updated)"}
LectureUrls == {"/mod/1"}
Lectures == [name : LectureNames, url : LectureUrls]

\* compareLecture: field-by-field equality of two lectures; an absent
\* lecture is equal to no lecture.
compareLecture(a, b) ==
    IF a = Undefined \/ b = Undefined
    THEN FALSE
    ELSE a.name = b.name /\ a.url = b.url

\* compareMeeting: subject, title and lecture-by-lecture equality.
compareMeeting(a, b) ==
    /\ a.subject = b.subject
    /\ a.title = b.title
    /\ Len(a.lectures) = Len(b.lectures)
    /\ \A i \in DOMAIN a.lectures : compareLecture(a.lectures[i], b.lectures[i])

------------------------------------------------------------------------------
(* Worker.#getLecturesDiff *)

RECURSIVE LecturesLoop(_, _, _, _)
\* The for loop of lines 73-79, from index i (0-based) with `result` so far.
LecturesLoop(oldMeeting, newMeeting, i, result) ==
    IF i >= Len(oldMeeting.lectures)
    THEN result
    ELSE LET oldLecture == At(oldMeeting.lectures, i)
             currentLecture == At(newMeeting.lectures, i)
             isEqual == compareLecture(oldLecture, currentLecture)
         IN  LecturesLoop(oldMeeting, newMeeting, i + 1,
                          IF isEqual THEN result
                          ELSE Append(result, currentLecture))

\* Mutant of getLecturesDiff: line 77 is missing, so every lecture of the
\* new meeting is reported, changed or not.
getLecturesDiffAll(oldMeeting, newMeeting) ==
    LET oldLength == Len(oldMeeting.lectures)
        newLength == Len(newMeeting.lectures)
    IN  (IF newLength > oldLength
         THEN SliceFrom(newMeeting.lectures, oldLength) ELSE <<>>)
        \o [i \in 1..oldLength |-> At(newMeeting.lectures, i - 1)]

getLecturesDiff(oldMeeting, newMeeting) ==
    LET oldLength == Len(oldMeeting.lectures)
        newLength == Len(newMeeting.lectures)
        appended == IF newLength > oldLength
                    THEN SliceFrom(newMeeting.lectures, oldLength)
                    ELSE <<>>
    IN  LecturesLoop(oldMeeting, newMeeting, 0, appended)

------------------------------------------------------------------------------
(* Worker.#getMeetingsDiff *)

RECURSIVE MeetingsLoop(_, _, _, _)
\* The for loop of lines 48-59 over slicedMeetings, from index i (0-based).
MeetingsLoop(old, slicedMeetings, i, result) ==
    IF i >= Len(slicedMeetings)
    THEN result
    ELSE LET newMeeting == At(slicedMeetings, i)
             oldMeeting == At(old.meetings, i)
             isEqual == compareMeeting(newMeeting, oldMeeting)
             lecturesDiff == getLecturesDiff(oldMeeting, newMeeting)
         IN  MeetingsLoop(old, slicedMeetings, i + 1,
                 IF isEqual /\ Len(lecturesDiff) < 1
                 THEN result
                 ELSE Append(result, [subject |-> newMeeting.subject,
                                      title |-> newMeeting.title,
                                      lectures |-> lecturesDiff]))

\* Mutant of getMeetingsDiff: line 44 drops the result of concat, so the
\* appended meetings are lost.
getMeetingsDiffNoAppended(old, new) ==
    MeetingsLoop(old, SliceTo(new.meetings, Len(old.meetings)), 0, <<>>)

RECURSIVE FullLecturesLoop(_, _, _, _)
FullLecturesLoop(old, slicedMeetings, i, result) ==
    IF i >= Len(slicedMeetings)
    THEN result
    ELSE LET newMeeting == At(slicedMeetings, i)
             oldMeeting == At(old.meetings, i)
         IN  FullLecturesLoop(old, slicedMeetings, i + 1,
                 IF compareMeeting(newMeeting, oldMeeting)
                    /\ Len(getLecturesDiff(oldMeeting, newMeeting)) < 1
                 THEN result
                 ELSE Append(result, newMeeting))

\* Mutant of getMeetingsDiff: line 57 passes on the whole lecture list of a
\* changed meeting instead of lecturesDiff.
getMeetingsDiffFullLectures(old, new) ==
    FullLecturesLoop(old, SliceTo(new.meetings, Len(old.meetings)), 0,
                     IF Len(new.meetings) > Len(old.meetings)
                     THEN SliceFrom(new.meetings, Len(old.meetings))
                     ELSE <<>>)

\* Mutant of getMeetingsDiff: the appended meetings are concatenated after
\* the loop instead of before it.
getMeetingsDiffChangedFirst(old, new) ==
    MeetingsLoop(old, SliceTo(new.meetings, Len(old.meetings)), 0, <<>>)
    \o (IF Len(new.meetings) > Len(old.meetings)
        THEN SliceFrom(new.meetings, Len(old.meetings))
        ELSE <<>>)

getMeetingsDiff(old, new) ==
    LET oldLength == Len(old.meetings)
        newLength == Len(new.meetings)
        appended == IF newLength > oldLength
                    THEN SliceFrom(new.meetings, oldLength)
                    ELSE <<>>
        slicedMeetings == SliceTo(new.meetings, oldLength)
    IN  MeetingsLoop(old, slicedMeetings, 0, appended)

------------------------------------------------------------------------------
(* Bounded inputs of the diff functions *)

MaxLectures == 3
MaxMeetings == 2

SeqsUpTo(S, n) == UNION {[1..k -> S] : k \in 0..n}

LectureA == [name |-> "Week 1", url |-> "/mod/1"]
LectureB == [name |-> "Week 1 (updated)", url |-> "/mod/1"]

\* Meetings given to #getLecturesDiff: every lecture list up to MaxLectures.
LectureInputMeetings ==
    [subject : {"Algorithms"}, title : {"Meeting 1", "Meeting 2"},
     lectures : SeqsUpTo(Lectures, MaxLectures)]

\* Meetings of the Subjects given to #getMeetingsDiff: a lecture changed
\* (A -> B), appended (A -> A,B) or removed (A,B -> A), under three headings.
MeetingHeadings ==
    {[subject |-> "Algorithms", title |-> "Meeting 1"],
     [subject |-> "Algorithms", title |-> "Meeting 2"],
     [subject |-> "Calculus", title |-> "Meeting 1"]}

MeetingLectureLists == {<<LectureA>>, <<LectureB>>, <<LectureA, LectureB>>}

InputMeetings ==
    {[subject |-> h.subject, title |-> h.title, lectures |-> ls] :
        h \in MeetingHeadings, ls \in MeetingLectureLists}

InputSubjects ==
    [courseId : {"CS101"}, name : {"Algorithms"},
     meetings : SeqsUpTo(InputMeetings, MaxMeetings)]

NoMeeting == [subject |-> "", title |-> "", lectures |-> <<>>]
NoSubject == [courseId |-> "", name |-> "", meetings |-> <<>>]

DiffIdle ==
    /\ oldSubject = NoSubject
    /\ newSubject = NoSubject
    /\ meetingsDiff = <<>>
    /\ inOldMeeting = NoMeeting
    /\ inNewMeeting = NoMeeting
    /\ outLecturesDiff = <<>>
    /\ dpc = "unused"

\* ---- #getMeetingsDiff applied to every pair of bounded Subjects
MeetingsInit ==
    /\ oldSubject \in InputSubjects
    /\ newSubject \in InputSubjects
    /\ meetingsDiff = <<>>
    /\ inOldMeeting = NoMeeting
    /\ inNewMeeting = NoMeeting
    /\ outLecturesDiff = <<>>
    /\ dpc = "input"

CallGetMeetingsDiff ==
    /\ dpc = "input"
    /\ meetingsDiff' = getMeetingsDiff(oldSubject, newSubject)
    /\ dpc' = "done"
    /\ UNCHANGED <<oldSubject, newSubject, inOldMeeting, inNewMeeting,
                   outLecturesDiff>>

\* ---- #getLecturesDiff applied to every pair of bounded Meetings
LecturesInit ==
    /\ oldSubject = NoSubject
    /\ newSubject = NoSubject
    /\ meetingsDiff = <<>>
    /\ inOldMeeting \in LectureInputMeetings
    /\ inNewMeeting \in LectureInputMeetings
    /\ outLecturesDiff = <<>>
    /\ dpc = "input"

CallGetLecturesDiff ==
    /\ dpc = "input"
    /\ outLecturesDiff' = getLecturesDiff(inOldMeeting, inNewMeeting)
    /\ dpc' = "done"
    /\ UNCHANGED <<oldSubject, newSubject, meetingsDiff, inOldMeeting,
                   inNewMeeting>>

------------------------------------------------------------------------------
(* JSON.stringify / JSON.parse of a Subject, as a sequence of tokens *)

RECURSIVE LecturesTokens(_)
\* An array of lectures; undefined (and null) entries are written as null.
LecturesTokens(ls) ==
    IF ls = <<>> THEN <<>>
    ELSE (IF Head(ls) = Undefined \/ Head(ls) = Null
          THEN <<"null">>
          ELSE <<"{", Head(ls).name, Head(ls).url, "}">>)
         \o LecturesTokens(Tail(ls))

RECURSIVE MeetingsTokens(_)
MeetingsTokens(ms) ==
    IF ms = <<>> THEN <<>>
    ELSE <<"{", Head(ms).subject, Head(ms).title, "[">>
         \o LecturesTokens(Head(ms).lectures) \o <<"]", "}">>
         \o MeetingsTokens(Tail(ms))

JSONstringify(subject) ==
    String(<<"{", subject.courseId, subject.name, "[">>
           \o MeetingsTokens(subject.meetings) \o <<"]", "}">>)

\* A parse step's result: ok, the value read, the position after it.
ParseFail == [ok |-> FALSE, val |-> Null, next |-> 0]
Parsed(v, n) == [ok |-> TRUE, val |-> v, next |-> n]

Tok(t, p) == IF p \in DOMAIN t THEN t[p] ELSE "<eof>"

IsText(tok) == tok \notin {"{", "}", "[", "]", "null", "<eof>"}

ParseLecture(t, p) ==
    IF Tok(t, p) = "null" THEN Parsed(Null, p + 1)
    ELSE IF Tok(t, p) = "{" /\ IsText(Tok(t, p + 1)) /\ IsText(Tok(t, p + 2))
            /\ Tok(t, p + 3) = "}"
         THEN Parsed([name |-> t[p + 1], url |-> t[p + 2]], p + 4)
         ELSE ParseFail

RECURSIVE ParseLectures(_, _, _)
\* After element r of an array: read on, or give up.
LecturesAfter(t, r, acc) ==
    IF r.ok THEN ParseLectures(t, r.next, Append(acc, r.val)) ELSE ParseFail

\* The elements of an array up to its closing bracket.
ParseLectures(t, p, acc) ==
    IF Tok(t, p) = "]" THEN Parsed(acc, p + 1)
    ELSE LecturesAfter(t, ParseLecture(t, p), acc)

\* A meeting whose lecture array r has been read: its closing brace.
MeetingClose(t, p, r) ==
    IF r.ok /\ Tok(t, r.next) = "}"
    THEN Parsed([subject |-> t[p + 1], title |-> t[p + 2],
                 lectures |-> r.val], r.next + 1)
    ELSE ParseFail

ParseMeeting(t, p) ==
    IF Tok(t, p) = "{" /\ IsText(Tok(t, p + 1)) /\ IsText(Tok(t, p + 2))
       /\ Tok(t, p + 3) = "["
    THEN MeetingClose(t, p, ParseLectures(t, p + 4, <<>>))
    ELSE ParseFail

RECURSIVE ParseMeetings(_, _, _)
MeetingsAfter(t, r, acc) ==
    IF r.ok THEN ParseMeetings(t, r.next, Append(acc, r.val)) ELSE ParseFail

ParseMeetings(t, p, acc) ==
    IF Tok(t, p) = "]" THEN Parsed(acc, p + 1)
    ELSE MeetingsAfter(t, ParseMeeting(t, p), acc)

\* A Subject whose meeting array r has been read: its closing brace must
\* be the last token.
SubjectClose(t, r) ==
    IF r.ok /\ Tok(t, r.next) = "}" /\ r.next = Len(t)
    THEN Parsed([courseId |-> t[2], name |-> t[3], meetings |-> r.val],
                r.next + 1)
    ELSE ParseFail

ParseText(t) ==
    IF t = <<"null">> THEN Parsed(Null, 2)
    ELSE IF Tok(t, 1) = "{" /\ IsText(Tok(t, 2)) /\ IsText(Tok(t, 3))
            /\ Tok(t, 4) = "["
         THEN SubjectClose(t, ParseMeetings(t, 5, <<>>))
         ELSE ParseFail

\* JSON.parse: ok = FALSE stands for the SyntaxError it throws.
JSONparse(str) == ParseText(str.text)

------------------------------------------------------------------------------
(* Worker.handle(): the portal, the store and the collaborators' outcomes *)

\* The course listing of the portal, in listing order.
CourseIds == <<"CS101", "MA202">>
CourseName(c) == IF c = "CS101" THEN "Algorithms" ELSE "Calculus"

Subject(c, ms) == [courseId |-> c, name |-> CourseName(c), meetings |-> ms]
Meeting(c, t, ls) == [subject |-> CourseName(c), title |-> t, lectures |-> ls]

\* What the portal may show for a course: no meeting yet, one meeting, or
\* that meeting with its lecture retitled plus a second meeting.
SubjectVersions(c) ==
    {Subject(c, <<>>),
     Subject(c, <<Meeting(c, "Meeting 1", <<LectureA>>)>>),
     Subject(c, <<Meeting(c, "Meeting 1", <<LectureB>>),
                  Meeting(c, "Meeting 2", <<LectureA, LectureB>>)>>)}

\* `subject_${subject.courseId}`
Key(c) == "subject_" \o c
Keys == {Key(CourseIds[n]) : n \in DOMAIN CourseIds}

\* A stored string that is not JSON.
Corrupt == String(<<"{", "CS101">>)

\* What the store may hold under a course's key before a run: nothing, a
\* snapshot written by an earlier run, the text null, or a damaged value.
StoredValues(c) ==
    {NullString, Corrupt, String(<<"null">>),
     JSONstringify(Subject(c, <<>>)),
     JSONstringify(Subject(c, <<Meeting(c, "Meeting 1", <<LectureA>>)>>))}

\* options.slice of handle()
Slices == {[start |-> 0, end |-> 2], [start |-> 0, end |-> 1],
           [start |-> 1, end |-> 2], [start |-> 0, end |-> 0]}

\* What a collaborator throws: an Error with a message, or another value.
Err(msg) == [error |-> TRUE, message |-> msg]
NonError == [error |-> FALSE, message |-> "not an Error"]
Throwables(msg) == {Err(msg), NonError}

GetFailure(c, message) ==
    [text |-> "Failed to get old data for", courseId |-> c, reason |-> message]
PutFailure(c, message) ==
    [text |-> "Failed to save new data for", courseId |-> c, reason |-> message]
BatchFailure(message) ==
    [text |-> message, courseId |-> "", reason |-> message]

Tasks == DOMAIN subjects
Settled(i) == tpc[i] \in {"done", "rejected"}

WorkerIdle ==
    /\ store = [k \in Keys |-> NullString]
    /\ hpc = "unused"
    /\ subjects = <<>>
    /\ tpc = <<>>
    /\ oldSubjectString = <<>>
    /\ getOutcome = <<>>
    /\ diffResult = <<>>
    /\ notified = <<>>
    /\ putArg = <<>>
    /\ failures = <<>>
    /\ calls = <<>>
    /\ loggerErrors = {}
    /\ webhookErrors = {}
    /\ settled = <<>>
    /\ acquisition = <<>>

WorkerInit ==
    /\ store \in {f \in [Keys -> UNION {StoredValues(CourseIds[n]) : n \in DOMAIN CourseIds}] :
                    \A n \in DOMAIN CourseIds :
                        f[Key(CourseIds[n])] \in StoredValues(CourseIds[n])}
    /\ hpc = "idle"
    /\ subjects = <<>>
    /\ tpc = <<>>
    /\ oldSubjectString = <<>>
    /\ getOutcome = <<>>
    /\ diffResult = <<>>
    /\ notified = <<>>
    /\ putArg = <<>>
    /\ failures = <<>>
    /\ calls = <<>>
    /\ loggerErrors = {}
    /\ webhookErrors = {}
    /\ settled = <<>>
    /\ acquisition = <<>>

taskVars == <<subjects, tpc, oldSubjectString, getOutcome, diffResult,
              notified, putArg, failures, calls, settled>>
logVars == <<loggerErrors, webhookErrors>>

------------------------------------------------------------------------------
(* Worker.handle(): acquisition, lines 85-90 *)

\* Lines 85-90: an acquisition call is made, answers, or throws.
Invoked(op) == [op |-> op, event |-> "invoked"]
Returned(op) == [op |-> op, event |-> "returned"]
Threw(op) == [op |-> op, event |-> "threw"]

CallHandle ==
    /\ UNCHANGED nonWorkerVars
    /\ hpc = "idle"
    /\ hpc' = "collectCookies"
    /\ acquisition' = <<Invoked("collectCookies")>>
    /\ UNCHANGED <<store, taskVars, logVars>>

CollectCookiesReturns ==
    /\ UNCHANGED nonWorkerVars
    /\ hpc = "collectCookies"
    /\ hpc' = "fetchSubjectsContent"
    /\ acquisition' = acquisition \o <<Returned("collectCookies"),
                                        Invoked("fetchSubjectsContent")>>
    /\ UNCHANGED <<store, taskVars, logVars>>

\* Mutant of CollectCookiesThrows: the failure is ignored and the content
\* is fetched all the same.
CollectCookiesThrowsIgnored ==
    /\ UNCHANGED nonWorkerVars
    /\ hpc = "collectCookies"
    /\ hpc' = "fetchSubjectsContent"
    /\ acquisition' = acquisition \o <<Threw("collectCookies"),
                                        Invoked("fetchSubjectsContent")>>
    /\ UNCHANGED <<store, taskVars, logVars>>

CollectCookiesThrows ==
    /\ UNCHANGED nonWorkerVars
    /\ hpc = "collectCookies"
    /\ hpc' = "rejected"
    /\ acquisition' = Append(acquisition, Threw("collectCookies"))
    /\ UNCHANGED <<store, taskVars, logVars>>

FetchSubjectsContentReturns ==
    /\ UNCHANGED nonWorkerVars
    /\ hpc = "fetchSubjectsContent"
    /\ hpc' = "collectSubjects"
    /\ acquisition' = acquisition \o <<Returned("fetchSubjectsContent"),
                                        Invoked("collectSubjects")>>
    /\ UNCHANGED <<store, taskVars, logVars>>

FetchSubjectsContentThrows ==
    /\ UNCHANGED nonWorkerVars
    /\ hpc = "fetchSubjectsContent"
    /\ hpc' = "rejected"
    /\ acquisition' = Append(acquisition, Threw("fetchSubjectsContent"))
    /\ UNCHANGED <<store, taskVars, logVars>>

\* subjects.map(async ...): every task runs up to its first await, the
\* storage get, before Promise.all is awaited.
SpawnTasks(collected) == [i \in DOMAIN collected |-> "get"]

\* collectSubjects returns the slice of the listing; the tasks are started.
CollectSubjectsReturns ==
    /\ UNCHANGED nonWorkerVars
    /\ hpc = "collectSubjects"
    /\ acquisition' = Append(acquisition, Returned("collectSubjects"))
    /\ \E slice \in Slices :
       \E listing \in {l \in [DOMAIN CourseIds ->
                               UNION {SubjectVersions(CourseIds[n]) : n \in DOMAIN CourseIds}] :
                         \A n \in DOMAIN CourseIds : l[n] \in SubjectVersions(CourseIds[n])} :
          LET collected == SubSeq(listing, slice.start + 1, slice.end)
          IN  /\ subjects' = collected
              /\ tpc' = SpawnTasks(collected)
              /\ oldSubjectString' = [i \in DOMAIN collected |-> NullString]
              /\ getOutcome' = [i \in DOMAIN collected |-> "pending"]
              /\ diffResult' = [i \in DOMAIN collected |-> NotComputed]
              /\ notified' = [i \in DOMAIN collected |-> NotComputed]
              /\ putArg' = [i \in DOMAIN collected |-> NotComputed]
              /\ failures' = [i \in DOMAIN collected |-> {}]
              /\ calls' = [i \in DOMAIN collected |->
                             [get |-> 1, notify |-> 0, put |-> 0]]
              /\ hpc' = IF collected = <<>> THEN "returned" ELSE "await"
    /\ UNCHANGED <<store, logVars, settled>>

CollectSubjectsThrows ==
    /\ UNCHANGED nonWorkerVars
    /\ hpc = "collectSubjects"
    /\ hpc' = "rejected"
    /\ acquisition' = Append(acquisition, Threw("collectSubjects"))
    /\ UNCHANGED <<store, taskVars, logVars>>

------------------------------------------------------------------------------
(* Worker.handle(): one diffing task, lines 91-132 *)

\* Mutant of ShouldDiff: the old Subject's meetings are not looked at.
ShouldDiffIgnoringOld(subject, old) ==
    /\ Len(subject.meetings) > 0
    /\ old # Null

\* Lines 108-112: whether the diff is computed.
ShouldDiff(subject, old) ==
    /\ Len(subject.meetings) > 0
    /\ old # Null
    /\ Len(old.meetings) > 0

\* Lines 115-118: the payload of webhook.notify.
NotifyPayload(subject, diff) == [subject EXCEPT !.meetings = diff]

\* Lines 105-123: what a task does, without awaiting, once its get has
\* answered with `str`: where it stops next and what it has passed on.
Continue(subject, str) ==
    IF str = NullString
    THEN [pc |-> "done", diff |-> NotComputed, notify |-> NotComputed,
          put |-> NotComputed]
    ELSE LET parsed == JSONparse(str)
         IN  IF ~parsed.ok
             THEN [pc |-> "rejected", diff |-> NotComputed,
                   notify |-> NotComputed, put |-> NotComputed]
             ELSE LET old == parsed.val
                      should == ShouldDiff(subject, old)
                      diff == IF should THEN getMeetingsDiff(old, subject)
                              ELSE <<>>
                  IN  IF should /\ Len(diff) > 0
                      THEN [pc |-> "notify", diff |-> Computed(diff),
                            notify |-> Computed(NotifyPayload(subject, diff)),
                            put |-> NotComputed]
                      ELSE [pc |-> "put",
                            diff |-> IF should THEN Computed(diff)
                                     ELSE NotComputed,
                            notify |-> NotComputed,
                            put |-> Computed(JSONstringify(subject))]

\* Mutant of TaskRejected: a rejection abandons the tasks still running.
TaskRejectedAbandoning(tp, i) ==
    [j \in DOMAIN tp |-> IF j = i \/ tp[j] # "done" THEN "rejected" ELSE tp[j]]

\* A task's promise is fulfilled / rejected: no other task is touched.
TaskResolved(tp, i) == [tp EXCEPT ![i] = "done"]
TaskRejected(tp, i) == [tp EXCEPT ![i] = "rejected"]

\* Lines 134-141: Promise.all settles as soon as one task rejects, or when
\* the last task is fulfilled; handle() then runs on without a pause.
Resolves(i) ==
    /\ tpc' = TaskResolved(tpc, i)
    /\ settled' = Append(settled, i)
    /\ hpc' = IF hpc = "await" /\ \A j \in Tasks : tpc'[j] = "done"
              THEN "returned" ELSE hpc
    /\ UNCHANGED logVars

Rejects(i, e) ==
    /\ tpc' = TaskRejected(tpc, i)
    /\ settled' = Append(settled, i)
    /\ hpc' = IF hpc = "await"
              THEN (IF e.error THEN "catch" ELSE "returned")
              ELSE hpc
    /\ loggerErrors' = IF hpc = "await" /\ e.error
                       THEN loggerErrors \cup {[by |-> 0, message |-> e.message]}
                       ELSE loggerErrors
    /\ webhookErrors' = IF hpc = "await" /\ e.error
                        THEN webhookErrors \cup {BatchFailure(e.message)}
                        ELSE webhookErrors

\* Lines 94-96 answered, then lines 105-123.
GetReturns(i) ==
    /\ UNCHANGED <<nonWorkerVars, acquisition>>
    /\ tpc[i] = "get"
    /\ LET str == store[Key(subjects[i].courseId)]
           next == Continue(subjects[i], str)
       IN  /\ oldSubjectString' = [oldSubjectString EXCEPT ![i] = str]
           /\ getOutcome' = [getOutcome EXCEPT
                               ![i] = IF str = NullString THEN "absent"
                                      ELSE "value"]
           /\ diffResult' = [diffResult EXCEPT ![i] = next.diff]
           /\ notified' = [notified EXCEPT ![i] = next.notify]
           /\ putArg' = [putArg EXCEPT ![i] = next.put]
           /\ calls' = [calls EXCEPT
                          ![i].notify = IF next.pc = "notify" THEN @ + 1 ELSE @,
                          ![i].put = IF next.pc = "put" THEN @ + 1 ELSE @]
           /\ failures' = [failures EXCEPT
                             ![i] = IF next.pc = "rejected"
                                    THEN @ \cup {"parse"} ELSE @]
           /\ CASE next.pc = "done" -> Resolves(i)
                [] next.pc = "rejected" -> Rejects(i, Err("Unexpected token"))
                [] OTHER -> /\ tpc' = [tpc EXCEPT ![i] = next.pc]
                            /\ UNCHANGED <<hpc, settled, logVars>>
    /\ UNCHANGED <<store, subjects>>

\* Lines 97-105: the get throws.
GetThrows(i) ==
    /\ UNCHANGED <<nonWorkerVars, acquisition>>
    /\ tpc[i] = "get"
    /\ \E e \in Throwables("KV get failed") :
          /\ getOutcome' = [getOutcome EXCEPT
                              ![i] = IF e.error THEN "threw" ELSE "threwOther"]
          /\ failures' = [failures EXCEPT ![i] = @ \cup {"get"}]
          /\ IF e.error
             THEN /\ loggerErrors' = loggerErrors \cup
                                        {[by |-> i, message |-> e.message]}
                  /\ webhookErrors' = webhookErrors \cup
                        {GetFailure(subjects[i].courseId, e.message)}
                  /\ tpc' = [tpc EXCEPT ![i] = "getError"]
                  /\ UNCHANGED <<hpc, settled>>
             ELSE Resolves(i)
    /\ UNCHANGED <<store, subjects, oldSubjectString, diffResult, notified,
                   putArg, calls>>

\* Line 100 answered; oldSubjectString is still null: line 105 returns.
GetErrorReturns(i) ==
    /\ UNCHANGED <<nonWorkerVars, acquisition>>
    /\ tpc[i] = "getError"
    /\ Resolves(i)
    /\ UNCHANGED <<store, subjects, oldSubjectString, getOutcome, diffResult,
                   notified, putArg, failures, calls>>

GetErrorThrows(i) ==
    /\ UNCHANGED <<nonWorkerVars, acquisition>>
    /\ tpc[i] = "getError"
    /\ \E e \in Throwables("webhook error failed") : Rejects(i, e)
    /\ failures' = [failures EXCEPT ![i] = @ \cup {"webhook.error"}]
    /\ UNCHANGED <<store, subjects, oldSubjectString, getOutcome, diffResult,
                   notified, putArg, calls>>

\* Line 115 answered; line 123 calls put.
NotifyReturns(i) ==
    /\ UNCHANGED <<nonWorkerVars, acquisition>>
    /\ tpc[i] = "notify"
    /\ tpc' = [tpc EXCEPT ![i] = "put"]
    /\ putArg' = [putArg EXCEPT ![i] = Computed(JSONstringify(subjects[i]))]
    /\ calls' = [calls EXCEPT ![i].put = @ + 1]
    /\ UNCHANGED <<store, hpc, subjects, oldSubjectString, getOutcome,
                   diffResult, notified, failures, settled, logVars>>

NotifyThrows(i) ==
    /\ UNCHANGED <<nonWorkerVars, acquisition>>
    /\ tpc[i] = "notify"
    /\ \E e \in Throwables("webhook notify failed") : Rejects(i, e)
    /\ failures' = [failures EXCEPT ![i] = @ \cup {"notify"}]
    /\ UNCHANGED <<store, subjects, oldSubjectString, getOutcome, diffResult,
                   notified, putArg, calls>>

\* Line 123 answered: the value is stored.
PutReturns(i) ==
    /\ UNCHANGED <<nonWorkerVars, acquisition>>
    /\ tpc[i] = "put"
    /\ store' = [store EXCEPT ![Key(subjects[i].courseId)] = putArg[i].val]
    /\ Resolves(i)
    /\ UNCHANGED <<subjects, oldSubjectString, getOutcome, diffResult,
                   notified, putArg, failures, calls>>

\* Mutant of PutThrows: a failed put is attempted again.
PutThrowsRetrying(i) ==
    /\ UNCHANGED <<nonWorkerVars, acquisition>>
    /\ tpc[i] = "put"
    /\ calls' = [calls EXCEPT ![i].put = @ + 1]
    /\ failures' = [failures EXCEPT ![i] = @ \cup {"put"}]
    /\ UNCHANGED <<store, hpc, subjects, tpc, oldSubjectString, getOutcome,
                   diffResult, notified, putArg, settled, logVars>>

\* Lines 124-131: the put throws.
PutThrows(i) ==
    /\ UNCHANGED <<nonWorkerVars, acquisition>>
    /\ tpc[i] = "put"
    /\ \E e \in Throwables("KV put failed") :
          IF e.error
          THEN /\ loggerErrors' = loggerErrors \cup
                                     {[by |-> i, message |-> e.message]}
               /\ webhookErrors' = webhookErrors \cup
                     {PutFailure(subjects[i].courseId, e.message)}
               /\ tpc' = [tpc EXCEPT ![i] = "putError"]
               /\ UNCHANGED <<hpc, settled>>
          ELSE Resolves(i)
    /\ failures' = [failures EXCEPT ![i] = @ \cup {"put"}]
    /\ UNCHANGED <<store, subjects, oldSubjectString, getOutcome, diffResult,
                   notified, putArg, calls>>

PutErrorReturns(i) ==
    /\ UNCHANGED <<nonWorkerVars, acquisition>>
    /\ tpc[i] = "putError"
    /\ Resolves(i)
    /\ UNCHANGED <<store, subjects, oldSubjectString, getOutcome, diffResult,
                   notified, putArg, failures, calls>>

PutErrorThrows(i) ==
    /\ UNCHANGED <<nonWorkerVars, acquisition>>
    /\ tpc[i] = "putError"
    /\ \E e \in Throwables("webhook error failed") : Rejects(i, e)
    /\ failures' = [failures EXCEPT ![i] = @ \cup {"webhook.error"}]
    /\ UNCHANGED <<store, subjects, oldSubjectString, getOutcome, diffResult,
                   notified, putArg, calls>>

\* Line 139 answered / thrown: handle() returns / rejects.
CatchReturns ==
    /\ UNCHANGED <<nonWorkerVars, acquisition>>
    /\ hpc = "catch"
    /\ hpc' = "returned"
    /\ UNCHANGED <<store, taskVars, logVars>>

CatchThrows ==
    /\ UNCHANGED <<nonWorkerVars, acquisition>>
    /\ hpc = "catch"
    /\ hpc' = "rejected"
    /\ UNCHANGED <<store, taskVars, logVars>>

WorkerNext ==
    \/ CallHandle
    \/ CollectCookiesReturns
    \/ CollectCookiesThrows
    \/ FetchSubjectsContentReturns
    \/ FetchSubjectsContentThrows
    \/ CollectSubjectsReturns
    \/ CollectSubjectsThrows
    \/ \E i \in Tasks : GetReturns(i)
    \/ \E i \in Tasks : GetThrows(i)
    \/ \E i \in Tasks : GetErrorReturns(i)
    \/ \E i \in Tasks : GetErrorThrows(i)
    \/ \E i \in Tasks : NotifyReturns(i)
    \/ \E i \in Tasks : NotifyThrows(i)
    \/ \E i \in Tasks : PutReturns(i)
    \/ \E i \in Tasks : PutThrows(i)
    \/ \E i \in Tasks : PutErrorReturns(i)
    \/ \E i \in Tasks : PutErrorThrows(i)
    \/ CatchReturns
    \/ CatchThrows

------------------------------------------------------------------------------
(* Scraper: scrape() and its steps *)

MaxScrapeRuns == 2

\* The steps of scrape() in program order, lines 72-80.
ScrapeOrder == <<"init", "login", "goToLMS", "savePageSnapshots", "cleanUp">>

\* The awaited operations of each step, in program order.
StepOps(step) ==
    CASE step = "init" -> <<"browser.getFirstPage">>
      [] step = "login" ->
            <<"page.visit", "page.insert", "page.insert", "page.clickButton">>
      [] step = "goToLMS" ->
            <<"page.waitForNetworkIdle", "page.clickButton", "page.clickButton",
              "page.close", "browser.newPage", "page.visit">>
      [] step = "savePageSnapshots" ->
            <<"page.getAttributesFromElements", "Promise.all">>
      [] step = "cleanUp" -> <<"browser.close">>

Rank(step) == CHOOSE n \in DOMAIN ScrapeOrder : ScrapeOrder[n] = step

\* hrefs as sequences of characters, so that url.slice(-4) is computed.
Url1 == <<"/", "c", "/", "1", "0", "0", "1">>
Url2 == <<"/", "c", "/", "2", "0", "0", "2">>
Url3 == <<"/", "d", "/", "1", "0", "0", "1">>
UrlLists == {<<>>, <<Url1>>, <<Url1, Url2>>, <<Url1, Url3>>}

\* url.slice(-4)
Last4(url) == SubSeq(url, IF Len(url) > 4 THEN Len(url) - 3 ELSE 1, Len(url))

\* `${timestamp}_${url.slice(-4)}`, the run standing for its timestamp.
AuditKey(run, url) == [timestamp |-> run, suffix |-> Last4(url)]

\* What an invocation ends with when it throws: the NotInitializedError of
\* lines 89, 99 and 111 with the resource it names, or whatever the awaited
\* collaborator threw.
NoError == [name |-> "none", resource |-> ""]
NotInitializedError(resource) ==
    [name |-> "NotInitializedError", resource |-> resource]
OperationError == [name |-> "Error", resource |-> ""]

ScraperIdle ==
    /\ scrapeStep = "unused"
    /\ scrapeOp = 0
    /\ page = "undefined"
    /\ browser = "open"
    /\ runs = 0
    /\ stepsEntered = <<>>
    /\ executed = {}
    /\ failedStep = "none"
    /\ urls = <<>>
    /\ utasks = <<>>
    /\ audit = {}
    /\ caller = "none"
    /\ raised = NoError

ScraperInit ==
    /\ scrapeStep = "idle"
    /\ scrapeOp = 0
    /\ page = "undefined"
    /\ browser = "open"
    /\ runs = 0
    /\ stepsEntered = <<>>
    /\ executed = {}
    /\ failedStep = "none"
    /\ urls = <<>>
    /\ utasks = <<>>
    /\ audit = {}
    /\ caller = "none"
    /\ raised = NoError

nonScraperVars == <<diffVars, workerVars>>

\* Mutant of NeedsPage: login has no guard (line 89 is missing).
NeedsPageExceptLogin(step) == step \in {"goToLMS", "savePageSnapshots"}

\* login, goToLMS and savePageSnapshots throw NotInitializedError when
\* this._page is undefined (lines 89, 99, 111).
NeedsPage(step) == step \in {"login", "goToLMS", "savePageSnapshots"}

\* scrape() invokes `step`: its guard, then its first awaited operation.
Enter(step, pg) ==
    /\ stepsEntered' = Append(stepsEntered, step)
    /\ IF NeedsPage(step) /\ pg = "undefined"
       THEN /\ scrapeStep' = "rejected"
            /\ scrapeOp' = 0
            /\ failedStep' = step
            /\ raised' = NotInitializedError("this._page")
            /\ UNCHANGED executed
       ELSE /\ scrapeStep' = step
            /\ scrapeOp' = 1
            /\ executed' = executed \cup {[step |-> step, op |-> 1]}
            /\ UNCHANGED <<failedStep, raised>>

\* The step in progress has returned: scrape() invokes the step that follows
\* (lines 72-80) or returns; a step invoked on its own returns to its caller.
StepDone(step, pg) ==
    IF caller = "scrape" /\ Rank(step) < Len(ScrapeOrder)
    THEN Enter(ScrapeOrder[Rank(step) + 1], pg)
    ELSE /\ scrapeStep' = "returned"
         /\ scrapeOp' = 0
         /\ UNCHANGED <<stepsEntered, executed, failedStep, raised>>

\* The awaited operation has answered: the next operation of the step, or
\* the next step of scrape(), or the end of scrape().
Proceed(pg) ==
    IF scrapeOp < Len(StepOps(scrapeStep))
    THEN /\ scrapeOp' = scrapeOp + 1
         /\ executed' = executed \cup {[step |-> scrapeStep, op |-> scrapeOp + 1]}
         /\ UNCHANGED <<scrapeStep, stepsEntered, failedStep, raised>>
    ELSE StepDone(scrapeStep, pg)

TaskSettled(t) == t.pc \in {"done", "rejected"}

\* scrape() is called: init() is a no-op when a page is held (line 63).
CallScrape ==
    /\ UNCHANGED nonScraperVars
    /\ scrapeStep \in {"idle", "returned", "rejected"}
    /\ runs < MaxScrapeRuns
    /\ runs' = runs + 1
    /\ urls' = <<>>
    /\ utasks' = SelectSeq(utasks, LAMBDA t : ~TaskSettled(t))
    /\ IF page # "undefined"
       THEN /\ stepsEntered' = <<"init", "login">>
            /\ scrapeStep' = "login"
            /\ scrapeOp' = 1
            /\ executed' = {[step |-> "login", op |-> 1]}
       ELSE /\ stepsEntered' = <<"init">>
            /\ scrapeStep' = "init"
            /\ scrapeOp' = 1
            /\ executed' = {[step |-> "init", op |-> 1]}
    /\ failedStep' = "none"
    /\ caller' = "scrape"
    /\ raised' = NoError
    /\ UNCHANGED <<page, browser, audit>>

MaxStepCalls == 3

\* One step is invoked on its own (init is public; login, goToLMS and
\* savePageSnapshots are private in TypeScript only, and are reached this way
\* by a caller that skips init): the guard of lines 63, 89, 99 or 111, then
\* the step's first awaited operation.
CallStep(step) ==
    /\ UNCHANGED nonScraperVars
    /\ scrapeStep \in {"idle", "returned", "rejected"}
    /\ runs < MaxStepCalls
    /\ runs' = runs + 1
    /\ caller' = "direct"
    /\ urls' = <<>>
    /\ utasks' = SelectSeq(utasks, LAMBDA t : ~TaskSettled(t))
    /\ stepsEntered' = <<step>>
    /\ IF NeedsPage(step) /\ page = "undefined"
       THEN /\ scrapeStep' = "rejected"
            /\ scrapeOp' = 0
            /\ executed' = {}
            /\ failedStep' = step
            /\ raised' = NotInitializedError("this._page")
       ELSE IF step = "init" /\ page # "undefined"
            THEN /\ scrapeStep' = "returned"
                 /\ scrapeOp' = 0
                 /\ executed' = {}
                 /\ failedStep' = "none"
                 /\ raised' = NoError
            ELSE /\ scrapeStep' = step
                 /\ scrapeOp' = 1
                 /\ executed' = {[step |-> step, op |-> 1]}
                 /\ failedStep' = "none"
                 /\ raised' = NoError
    /\ UNCHANGED <<page, browser, audit>>

\* Line 64: getFirstPage answers.
InitReturns ==
    /\ UNCHANGED nonScraperVars
    /\ scrapeStep = "init"
    /\ page' = "open"
    /\ browser' = "open"
    /\ Proceed("open")
    /\ UNCHANGED <<runs, urls, utasks, audit, caller>>

\* Lines 91-94: an operation of login answers.
LoginOpReturns ==
    /\ UNCHANGED nonScraperVars
    /\ scrapeStep = "login"
    /\ page = "open"
    /\ Proceed(page)
    /\ UNCHANGED <<page, browser, runs, urls, utasks, audit, caller>>

\* Lines 101-106: an operation of goToLMS answers.
GoToLMSOpReturns ==
    /\ UNCHANGED nonScraperVars
    /\ scrapeStep = "goToLMS"
    /\ LET op == StepOps("goToLMS")[scrapeOp]
       IN  /\ op # "browser.newPage" => page = "open"
           /\ page' = CASE op = "page.close" -> "closed"
                        [] op = "browser.newPage" -> "open"
                        [] OTHER -> page
           /\ Proceed(page')
    /\ UNCHANGED <<browser, runs, urls, utasks, audit, caller>>

\* Lines 113-123: the hrefs are read, one task per href is started (each up
\* to its first await, browser.newPage) and Promise.all is awaited.
GetAttributesReturns ==
    /\ UNCHANGED nonScraperVars
    /\ scrapeStep = "savePageSnapshots"
    /\ scrapeOp = 1
    /\ page = "open"
    /\ \E found \in UrlLists :
          /\ urls' = found
          /\ utasks' = utasks \o
                [k \in DOMAIN found |->
                    [run |-> runs, url |-> found[k], pc |-> "newPage",
                     page |-> "none"]]
          /\ IF found = <<>>
             THEN /\ StepDone("savePageSnapshots", page)
             ELSE /\ scrapeOp' = 2
                  /\ executed' = executed \cup
                        {[step |-> "savePageSnapshots", op |-> 2]}
                  /\ UNCHANGED <<scrapeStep, stepsEntered, failedStep, raised>>
    /\ UNCHANGED <<page, browser, runs, audit, caller>>

\* Mutant of CleanUpReturns: line 85 is missing, the page handle is kept.
CleanUpReturnsKeepingPage ==
    /\ UNCHANGED nonScraperVars
    /\ scrapeStep = "cleanUp"
    /\ browser' = "closed"
    /\ page' = "closed"
    /\ utasks' = [k \in DOMAIN utasks |->
                    [utasks[k] EXCEPT !.page = IF @ = "open" THEN "closed" ELSE @]]
    /\ Proceed("closed")
    /\ UNCHANGED <<runs, urls, audit, caller>>

\* Lines 84-85: the browser is closed and the page handle cleared.
CleanUpReturns ==
    /\ UNCHANGED nonScraperVars
    /\ scrapeStep = "cleanUp"
    /\ browser' = "closed"
    /\ page' = "undefined"
    /\ utasks' = [k \in DOMAIN utasks |->
                    [utasks[k] EXCEPT !.page = IF @ = "open" THEN "closed" ELSE @]]
    /\ Proceed("undefined")
    /\ UNCHANGED <<runs, urls, audit, caller>>

\* Mutant of StepOpThrows: the failure is swallowed and scrape() goes on
\* with what follows.
StepOpThrowsSwallowed ==
    /\ UNCHANGED nonScraperVars
    /\ scrapeStep \in {"init", "login", "goToLMS", "savePageSnapshots", "cleanUp"}
    /\ StepOps(scrapeStep)[scrapeOp] # "Promise.all"
    /\ failedStep' = scrapeStep
    /\ IF Rank(scrapeStep) < Len(ScrapeOrder)
       THEN /\ scrapeStep' = ScrapeOrder[Rank(scrapeStep) + 1]
            /\ scrapeOp' = 1
            /\ stepsEntered' = Append(stepsEntered, scrapeStep')
            /\ executed' = executed \cup {[step |-> scrapeStep', op |-> 1]}
       ELSE /\ scrapeStep' = "returned"
            /\ scrapeOp' = 0
            /\ UNCHANGED <<stepsEntered, executed>>
    /\ UNCHANGED <<page, browser, runs, urls, utasks, audit, caller, raised>>

\* The awaited operation of a step throws: scrape() rejects with it.
StepOpThrows ==
    /\ UNCHANGED nonScraperVars
    /\ scrapeStep \in {"init", "login", "goToLMS", "savePageSnapshots", "cleanUp"}
    /\ StepOps(scrapeStep)[scrapeOp] # "Promise.all"
    /\ scrapeStep' = "rejected"
    /\ scrapeOp' = 0
    /\ failedStep' = scrapeStep
    /\ raised' = OperationError
    /\ UNCHANGED <<page, browser, runs, stepsEntered, executed, urls, utasks,
                   audit, caller>>

\* Lines 115-122: the awaited operations of one per-URL task, in order.
UrlTaskOps == <<"newPage", "visit", "getContent", "put", "close">>

AfterUrlOp(pc) ==
    CASE pc = "newPage" -> "visit"
      [] pc = "visit" -> "getContent"
      [] pc = "getContent" -> "put"
      [] pc = "put" -> "close"
      [] pc = "close" -> "done"

\* Line 123: Promise.all over this run's tasks is what scrape() awaits.
Awaited(k) ==
    /\ utasks[k].run = runs
    /\ scrapeStep = "savePageSnapshots"
    /\ scrapeOp = 2

\* The awaited operation of task k answers.
UrlTaskReturns(k) ==
    /\ UNCHANGED nonScraperVars
    /\ LET t == utasks[k]
           pg == CASE t.pc = "newPage" -> "open"
                   [] t.pc = "close" -> "closed"
                   [] OTHER -> t.page
       IN  /\ t.pc \in {"newPage", "visit", "getContent", "put", "close"}
           /\ t.pc = "newPage" => browser = "open"
           /\ t.pc \in {"visit", "getContent", "close"} => t.page = "open"
           /\ utasks' = [utasks EXCEPT ![k].pc = AfterUrlOp(t.pc), ![k].page = pg]
           /\ audit' = IF t.pc = "put"
                       THEN {r \in audit : r.key # AuditKey(t.run, t.url)}
                            \cup {[key |-> AuditKey(t.run, t.url), value |-> t.url]}
                       ELSE audit
           /\ IF Awaited(k) /\ \A j \in DOMAIN utasks :
                                  utasks'[j].run = runs => utasks'[j].pc = "done"
              THEN StepDone("savePageSnapshots", page)
              ELSE UNCHANGED <<scrapeStep, scrapeOp, stepsEntered, executed,
                               failedStep, raised>>
    /\ UNCHANGED <<page, browser, runs, urls, caller>>

\* The awaited operation of task k throws, or collect(html) throws once
\* getContent has answered: the task rejects, and with it Promise.all.
UrlTaskThrows(k) ==
    /\ UNCHANGED nonScraperVars
    /\ utasks[k].pc \in {"newPage", "visit", "getContent", "put", "close"}
    /\ utasks' = [utasks EXCEPT ![k].pc = "rejected"]
    /\ IF Awaited(k)
       THEN /\ scrapeStep' = "rejected"
            /\ scrapeOp' = 0
            /\ failedStep' = "savePageSnapshots"
            /\ raised' = OperationError
       ELSE UNCHANGED <<scrapeStep, scrapeOp, failedStep, raised>>
    /\ UNCHANGED <<page, browser, runs, stepsEntered, executed, urls, audit,
                   caller>>

ScraperNext ==
    \/ CallScrape
    \/ InitReturns
    \/ LoginOpReturns
    \/ GoToLMSOpReturns
    \/ GetAttributesReturns
    \/ CleanUpReturns
    \/ StepOpThrows
    \/ \E k \in DOMAIN utasks : UrlTaskReturns(k)
    \/ \E k \in DOMAIN utasks : UrlTaskThrows(k)

------------------------------------------------------------------------------
(* Specifications *)

\* Worker.handle() run once against any store.
Init == WorkerInit /\ DiffIdle /\ ScraperIdle
Next == WorkerNext
Spec == Init /\ [][Next]_vars

\* #getMeetingsDiff on every pair of bounded Subjects.
MeetingsDiffNext == CallGetMeetingsDiff /\ UNCHANGED <<workerVars, scraperVars>>
MeetingsDiffInit == MeetingsInit /\ WorkerIdle /\ ScraperIdle
MeetingsDiffSpec == MeetingsDiffInit /\ [][MeetingsDiffNext]_vars

\* #getLecturesDiff on every pair of bounded Meetings.
LecturesDiffNext == CallGetLecturesDiff /\ UNCHANGED <<workerVars, scraperVars>>
LecturesDiffInit == LecturesInit /\ WorkerIdle /\ ScraperIdle
LecturesDiffSpec == LecturesDiffInit /\ [][LecturesDiffNext]_vars

\* Scraper.scrape() called up to MaxScrapeRuns times on one Scraper.
ScrapeInit == ScraperInit /\ WorkerIdle /\ DiffIdle
ScrapeSpec == ScrapeInit /\ [][ScraperNext]_vars

\* The steps of one Scraper invoked on their own, in any order, up to
\* MaxStepCalls times.
StepCallNext ==
    \/ \E step \in {ScrapeOrder[n] : n \in DOMAIN ScrapeOrder} : CallStep(step)
    \/ InitReturns
    \/ LoginOpReturns
    \/ GoToLMSOpReturns
    \/ GetAttributesReturns
    \/ CleanUpReturns
    \/ StepOpThrows
    \/ \E k \in DOMAIN utasks : UrlTaskReturns(k)
    \/ \E k \in DOMAIN utasks : UrlTaskThrows(k)
StepCallInit == ScraperInit /\ WorkerIdle /\ DiffIdle
StepCallSpec == StepCallInit /\ [][StepCallNext]_vars

------------------------------------------------------------------------------
(* Properties of Worker.handle(), checked under Spec *)

\* The previous snapshot a task has loaded: its get answered a string that
\* parses to a Subject.
Loaded(i) ==
    /\ oldSubjectString[i].present
    /\ JSONparse(oldSubjectString[i]).ok
    /\ JSONparse(oldSubjectString[i]).val # Null
OldOf(i) == JSONparse(oldSubjectString[i]).val
KeyOf(i) == Key(subjects[i].courseId)
AllSettled == \A i \in Tasks : Settled(i)

\* C1: when the storage get of a Subject throws, the error is logged, an
\* error notification naming the courseId is sent, no diff is computed, and
\* the new Subject is still passed to put under subject_<courseId>.
C1_GetFailureStillPersists ==
    \A i \in Tasks :
        (getOutcome[i] = "threw" /\ tpc[i] = "done") =>
            /\ [by |-> i, message |-> "KV get failed"] \in loggerErrors
            /\ GetFailure(subjects[i].courseId, "KV get failed") \in webhookErrors
            /\ ~diffResult[i].computed
            /\ putArg[i] = Computed(JSONstringify(subjects[i]))

\* C2: when the get of a collected Subject answers that nothing is stored,
\* the store holds the new Subject under its key once the run is over.
C2_FirstSnapshotCreated ==
    \A i \in Tasks :
        (getOutcome[i] = "absent" /\ hpc = "returned" /\ AllSettled) =>
            store[KeyOf(i)] = JSONstringify(subjects[i])

\* C3: a task that loaded a previous snapshot passes the serialization of
\* the whole new Subject to put, whatever the diff and the notify call did.
C3_PutWhateverNotifyDid ==
    \A i \in Tasks :
        (Settled(i) /\ Loaded(i)) =>
            putArg[i] = Computed(JSONstringify(subjects[i]))

\* C4: a task is never stopped by another task's failure: it is always at
\* one of its own positions, it is rejected only by a failure of its own
\* parse, notify or error-notification call, and when none of its own steps
\* failed and its get answered a stored value it ends fulfilled, having
\* passed the new Subject to put, which the store then holds.
C4_SiblingIsolation ==
    \A j \in Tasks :
        /\ tpc[j] \in {"get", "getError", "notify", "put", "putError", "done",
                       "rejected"}
        /\ tpc[j] = "rejected" =>
              failures[j] \cap {"parse", "notify", "webhook.error"} # {}
        /\ (Settled(j) /\ failures[j] = {} /\ getOutcome[j] = "value") =>
              /\ tpc[j] = "done"
              /\ calls[j].put = 1
              /\ putArg[j] = Computed(JSONstringify(subjects[j]))
              /\ store[KeyOf(j)] = JSONstringify(subjects[j])

\* A task was rejected, and afterwards a sibling's put answered and the
\* sibling ended fulfilled.
C4_Witness ==
    \E i, j \in Tasks :
        /\ i # j
        /\ settled = <<i, j>>
        /\ tpc[i] = "rejected"
        /\ hpc \in {"catch", "returned", "rejected"}
        /\ tpc[j] = "done"
        /\ failures[j] = {}
        /\ putArg[j].computed
        /\ store[KeyOf(j)] = JSONstringify(subjects[j])

\* Whether lines 108-114 call for a notification of task i.
NotifyDue(i) ==
    /\ Loaded(i)
    /\ Len(OldOf(i).meetings) > 0
    /\ Len(subjects[i].meetings) > 0
    /\ getMeetingsDiff(OldOf(i), subjects[i]) # <<>>

\* C9: webhook.notify is called for a Subject exactly when a previous
\* snapshot was loaded, old and new both have a meeting and the meetings
\* diff is not empty; it is called once, with the new Subject's fields and
\* the diff as meetings; identical old and new give no notification.
C9_NotifyExactlyOnChange ==
    \A i \in Tasks :
        /\ notified[i].computed <=> NotifyDue(i)
        /\ notified[i].computed =>
              /\ calls[i].notify = 1
              /\ notified[i].val =
                    [courseId |-> subjects[i].courseId,
                     name |-> subjects[i].name,
                     meetings |-> getMeetingsDiff(OldOf(i), subjects[i])]
              /\ notified[i].val.meetings = diffResult[i].val
        /\ (Loaded(i) /\ OldOf(i) = subjects[i]) => ~notified[i].computed

\* One task has sent a notification with a changed and an appended meeting,
\* another found its Subject identical to the snapshot and sent none.
C9_Witness ==
    \E i, j \in Tasks :
        /\ notified[i].computed
        /\ Len(notified[i].val.meetings) = 2
        /\ Len(notified[i].val.meetings[2].lectures) = 1
        /\ tpc[i] = "done"
        /\ Loaded(j)
        /\ OldOf(j) = subjects[j]
        /\ Len(subjects[j].meetings) > 0
        /\ tpc[j] = "done"
        /\ ~notified[j].computed

------------------------------------------------------------------------------
(* Properties of #getMeetingsDiff, checked under MeetingsDiffSpec *)

Range(seq) == {seq[n] : n \in DOMAIN seq}
Count(seq, x) == Cardinality({n \in DOMAIN seq : seq[n] = x})
Max(a, b) == IF a > b THEN a ELSE b

OldLen == Len(oldSubject.meetings)
NewLen == Len(newSubject.meetings)

\* The indices (1-based) at which both Subjects have a meeting.
Shared == 1..Min(OldLen, NewLen)

\* The meetings of new past the old meeting count, in index order.
AppendedMeetings == SubSeq(newSubject.meetings, OldLen + 1, NewLen)

\* new.meetings is old.meetings followed by zero or more meetings.
PrefixExtension ==
    /\ NewLen >= OldLen
    /\ \A n \in 1..OldLen : newSubject.meetings[n] = oldSubject.meetings[n]

\* C5: when new.meetings is old.meetings plus appended meetings, the diff
\* is exactly the appended meetings in order, of length newLen - oldLen,
\* and empty when old and new are identical.
C5_PrefixExtensionGivesAppended ==
    (dpc = "done" /\ PrefixExtension) =>
        /\ meetingsDiff = AppendedMeetings
        /\ Len(meetingsDiff) = NewLen - OldLen
        /\ (oldSubject = newSubject => meetingsDiff = <<>>)

\* An old Subject with meetings, extended by a meeting, has been diffed.
C5_Witness ==
    /\ dpc = "done"
    /\ PrefixExtension
    /\ OldLen >= 1
    /\ NewLen > OldLen
    /\ meetingsDiff = <<newSubject.meetings[NewLen]>>

\* Old and new differ at shared index n: in subject, title or a lecture.
Differ(n) == oldSubject.meetings[n] # newSubject.meetings[n]

\* What the claim expects for a changed meeting at shared index n.
ReducedMeeting(n) ==
    [subject |-> newSubject.meetings[n].subject,
     title |-> newSubject.meetings[n].title,
     lectures |-> getLecturesDiff(oldSubject.meetings[n],
                                  newSubject.meetings[n])]

\* C6: each shared index at which the meetings differ contributes one
\* Meeting with new's subject and title and exactly the lectures diff as
\* lectures; a shared index with equal meetings contributes nothing. (The
\* meetings past the old count are the rest of the result.)
C6_ChangedMeetingCarriesLecturesDiff ==
    dpc = "done" =>
        /\ Len(meetingsDiff) =
              Len(AppendedMeetings) + Cardinality({n \in Shared : Differ(n)})
        /\ \A m \in Range(meetingsDiff) \cup {ReducedMeeting(n) : n \in Shared} :
              Count(meetingsDiff, m) =
                  Count(AppendedMeetings, m)
                  + Cardinality({n \in Shared : Differ(n) /\ ReducedMeeting(n) = m})

\* Two shared meetings, one equal and one with a lecture appended: the diff
\* is the one reduced meeting, carrying fewer lectures than the new meeting.
C6_Witness ==
    /\ dpc = "done"
    /\ OldLen = 2
    /\ NewLen = 2
    /\ ~Differ(1)
    /\ Differ(2)
    /\ meetingsDiff = <<ReducedMeeting(2)>>
    /\ Len(meetingsDiff[1].lectures) = 1
    /\ Len(newSubject.meetings[2].lectures) = 2

RECURSIVE ChangedFrom(_)
\* The reduced meetings of the differing shared indices from n on, ascending.
ChangedFrom(n) ==
    IF n \notin Shared THEN <<>>
    ELSE (IF Differ(n) THEN <<ReducedMeeting(n)>> ELSE <<>>)
         \o ChangedFrom(n + 1)

\* C8 as claimed: the result is in ascending order of index in new, that is
\* the changed meetings of the shared indices, then the appended meetings.
C8_AscendingIndexOrder ==
    dpc = "done" => meetingsDiff = ChangedFrom(1) \o AppendedMeetings

\* C8 as amended: the appended meetings come first, in ascending index
\* order, then the changed meetings of the shared indices in ascending
\* index order.
C8_AppendedThenChanged ==
    dpc = "done" => meetingsDiff = AppendedMeetings \o ChangedFrom(1)

\* A Subject that both changes a shared meeting and appends one.
C8_Witness ==
    /\ dpc = "done"
    /\ OldLen = 1
    /\ NewLen = 2
    /\ Differ(1)
    /\ meetingsDiff = <<newSubject.meetings[2], ReducedMeeting(1)>>
    /\ newSubject.meetings[2] # ReducedMeeting(1)

------------------------------------------------------------------------------
(* Properties of #getLecturesDiff, checked under LecturesDiffSpec *)

\* All lecture indices (1-based) of either meeting.
LectureIndices ==
    1..Max(Len(inOldMeeting.lectures), Len(inNewMeeting.lectures))

SameLecture(n) ==
    At(inOldMeeting.lectures, n - 1) = At(inNewMeeting.lectures, n - 1)

\* Only the lecture at index k, present in both meetings, differs.
OnlyDiffersAt(k) ==
    /\ k \in 1..Min(Len(inOldMeeting.lectures), Len(inNewMeeting.lectures))
    /\ ~SameLecture(k)
    /\ \A n \in LectureIndices \ {k} : SameLecture(n)

\* C7: when only the lecture at one index k below both lecture counts
\* differs and every other lecture is equal, the lectures diff is exactly
\* the lecture at index k of new.
C7_SingleChangedLecture ==
    dpc = "done" =>
        \A k \in LectureIndices :
            OnlyDiffersAt(k) => outLecturesDiff = <<inNewMeeting.lectures[k]>>

\* Three lectures, the middle one retitled.
C7_Witness ==
    /\ dpc = "done"
    /\ Len(inOldMeeting.lectures) = 3
    /\ OnlyDiffersAt(2)
    /\ outLecturesDiff = <<inNewMeeting.lectures[2]>>

------------------------------------------------------------------------------
(* Properties of Scraper.scrape(), checked under ScrapeSpec *)

\* C10: the steps of a run are invoked in the order init, login, goToLMS,
\* savePageSnapshots, cleanUp, each at most once; every operation invoked
\* belongs to a step that was invoked; and once a step has failed the run
\* is rejected, the failed step is the last one invoked and no operation of
\* a later step has been invoked.
C10_StepsInOrderFailureStops ==
    /\ Len(stepsEntered) <= Len(ScrapeOrder)
    /\ \A n \in DOMAIN stepsEntered : stepsEntered[n] = ScrapeOrder[n]
    /\ \A e \in executed : e.step \in Range(stepsEntered)
    /\ scrapeStep \in Range(ScrapeOrder) =>
          stepsEntered[Len(stepsEntered)] = scrapeStep
    /\ failedStep # "none" =>
          /\ scrapeStep = "rejected"
          /\ stepsEntered[Len(stepsEntered)] = failedStep
          /\ \A e \in executed : Rank(e.step) <= Rank(failedStep)
    /\ scrapeStep = "returned" => stepsEntered = ScrapeOrder

\* goToLMS failed after login was done: the run is rejected there.
C10_Witness ==
    /\ failedStep = "goToLMS"
    /\ scrapeStep = "rejected"
    /\ stepsEntered = <<"init", "login", "goToLMS">>
    /\ [step |-> "goToLMS", op |-> 5] \in executed

------------------------------------------------------------------------------
(* Properties of the Scraper's steps invoked on their own, under StepCallSpec *)

\* The invocation in this step is a direct call of `step`.
Invokes(step) ==
    /\ runs' = runs + 1
    /\ caller' = "direct"
    /\ stepsEntered' = <<step>>

\* C11: when login, goToLMS or savePageSnapshots is invoked while the Scraper
\* holds no page handle, the invocation ends at once with a
\* NotInitializedError naming this._page: no page, browser or storage
\* operation is invoked, no per-URL task is started, and the page handle, the
\* browser and the audit-trail store are as they were.
C11_NotInitializedNoEffect ==
    [][\A step \in {"login", "goToLMS", "savePageSnapshots"} :
          (Invokes(step) /\ page = "undefined") =>
              /\ scrapeStep' = "rejected"
              /\ raised' = NotInitializedError("this._page")
              /\ executed' = {}
              /\ page' = page
              /\ browser' = browser
              /\ audit' = audit
              /\ urls' = <<>>
              /\ \A k \in DOMAIN utasks' : utasks'[k].run < runs']_vars

\* login was invoked on a Scraper whose page handle cleanUp had cleared, and
\* ended with the NotInitializedError.
C11_Witness ==
    /\ caller = "direct"
    /\ runs = 3
    /\ stepsEntered = <<"login">>
    /\ page = "undefined"
    /\ browser = "closed"
    /\ scrapeStep = "rejected"
    /\ raised = NotInitializedError("this._page")

------------------------------------------------------------------------------
(* Properties of scrape() across runs, under ScrapeSpec *)

\* This step is a call of scrape().
ScrapeCalled ==
    /\ runs' = runs + 1
    /\ caller' = "scrape"

GetFirstPage == [step |-> "init", op |-> 1]
BrowserClose == [step |-> "cleanUp", op |-> 1]

\* C12: once a scrape() run has returned from cleanUp, browser.close has been
\* called, the browser is closed and the page handle is undefined; a
\* scrape() called with no page handle invokes getFirstPage, and one called
\* while a page handle exists invokes no getFirstPage and leaves the handle
\* as it is.
C12_ClosedThenFreshPage ==
    /\ [](scrapeStep = "returned" =>
             /\ BrowserClose \in executed
             /\ browser = "closed"
             /\ page = "undefined")
    /\ [][ScrapeCalled =>
             /\ page = "undefined" => GetFirstPage \in executed'
             /\ page # "undefined" =>
                    /\ GetFirstPage \notin executed'
                    /\ page' = page
                    /\ scrapeStep' # "init"]_vars

\* The second run, called after the first one returned, awaits getFirstPage.
C12_Witness ==
    /\ runs = 2
    /\ scrapeStep = "init"
    /\ GetFirstPage \in executed
    /\ browser = "closed"
    /\ page = "undefined"

------------------------------------------------------------------------------
(* Properties of the acquisition stage of Worker.handle(), under Spec *)

\* C13: fetchSubjectsContent is invoked only after collectCookies has
\* returned; once collectCookies has thrown, handle() is rejected with no
\* content fetched, no Subject collected, no task started (so no storage
\* get or put and no notify) and nothing sent to the webhook or the logger.
C13_CookiesBeforeContent ==
    /\ \A n \in DOMAIN acquisition :
          acquisition[n] = Invoked("fetchSubjectsContent") =>
              \E m \in 1..(n - 1) : acquisition[m] = Returned("collectCookies")
    /\ Threw("collectCookies") \in Range(acquisition) =>
          /\ hpc = "rejected"
          /\ Invoked("fetchSubjectsContent") \notin Range(acquisition)
          /\ Invoked("collectSubjects") \notin Range(acquisition)
          /\ subjects = <<>>
          /\ calls = <<>>
          /\ notified = <<>>
          /\ putArg = <<>>
          /\ webhookErrors = {}
          /\ loggerErrors = {}

\* collectCookies has thrown.
C13_Witness ==
    /\ hpc = "rejected"
    /\ acquisition = <<Invoked("collectCookies"), Threw("collectCookies")>>

------------------------------------------------------------------------------
(* Properties of savePageSnapshots and its per-URL tasks, under ScrapeSpec *)

\* The per-URL tasks started by the current run.
OwnTasks == {k \in DOMAIN utasks : utasks[k].run = runs}

\* savePageSnapshots has been invoked in this run and is over.
SnapshotsEnded ==
    /\ "savePageSnapshots" \in Range(stepsEntered)
    /\ scrapeStep # "savePageSnapshots"

\* C14: once savePageSnapshots has returned or raised, every per-URL task of
\* the run has settled: none is still opening or visiting a page, reading
\* content, writing to storage or closing its page.
C14_StepEndsWhenAllSettled ==
    SnapshotsEnded => \A k \in OwnTasks : TaskSettled(utasks[k])

\* The task's storage write has answered.
HasWritten(t) == t.pc \in {"close", "done"}

\* C17: the per-URL tasks of distinct URLs of one run write distinct
\* audit-trail keys, and the artifact a task has written is still in the
\* store under its key: no other task of the run has overwritten it.
C17_DistinctAuditKeys ==
    /\ \A j, k \in OwnTasks :
          utasks[j].url # utasks[k].url =>
              AuditKey(utasks[j].run, utasks[j].url)
                  # AuditKey(utasks[k].run, utasks[k].url)
    /\ \A k \in OwnTasks :
          HasWritten(utasks[k]) =>
              [key |-> AuditKey(utasks[k].run, utasks[k].url),
               value |-> utasks[k].url] \in audit

\* C19: the page handle held when scrape() is called is never a page that
\* an earlier run has closed.
C19_NoStalePageAtStart ==
    [][ScrapeCalled => page # "closed"]_vars

\* C20: a per-URL task that has settled, fulfilled or rejected, has left no
\* page of its own open.
C20_TaskPagesClosed ==
    \A k \in DOMAIN utasks :
        TaskSettled(utasks[k]) => utasks[k].page # "open"

------------------------------------------------------------------------------
(* Properties of the per-Subject tasks of Worker.handle(), under Spec *)

\* C15: no per-Subject task is ever rejected, and handle() has ended only
\* when every per-Subject task has settled.
C15_NoTaskRejects ==
    /\ \A i \in Tasks : tpc[i] # "rejected"
    /\ hpc \in {"returned", "rejected"} => AllSettled

\* C16: in one run collectCookies, fetchSubjectsContent and collectSubjects
\* are invoked at most once each (exactly once each when the run got as far
\* as its tasks), and every task invokes the storage get, notify and the
\* storage put at most once each, whatever has failed.
C16_AttemptOnce ==
    /\ \A op \in {"collectCookies", "fetchSubjectsContent", "collectSubjects"} :
          Count(acquisition, Invoked(op)) <= 1
    /\ Tasks # {} =>
          \A op \in {"collectCookies", "fetchSubjectsContent", "collectSubjects"} :
              Count(acquisition, Invoked(op)) = 1
    /\ \A i \in Tasks :
          /\ calls[i].get <= 1
          /\ calls[i].notify <= 1
          /\ calls[i].put <= 1

\* A task whose notify answered and whose put threw has ended, each of its
\* operations attempted once.
C16_Witness ==
    /\ hpc = "returned"
    /\ \E i \in Tasks :
          /\ tpc[i] = "done"
          /\ "put" \in failures[i]
          /\ calls[i] = [get |-> 1, notify |-> 1, put |-> 1]

------------------------------------------------------------------------------
(* Properties of #getLecturesDiff on Meetings of any lengths, under
   LecturesDiffSpec *)

\* C18: every element of the lectures diff is a lecture of the new Meeting,
\* also when the new Meeting has fewer lectures than the old one; no element
\* is undefined.
C18_DiffHoldsNewLecturesOnly ==
    dpc = "done" =>
        \A n \in DOMAIN outLecturesDiff :
            /\ outLecturesDiff[n] # Undefined
            /\ outLecturesDiff[n] \in Range(inNewMeeting.lectures)

====
